---- MODULE Spec2Model ----
(***************************************************************************)
(* A model of src/Clustering.py: entity normalisation, greedy entity       *)
(* clustering, cluster-aware relation merging, relation analytics, the     *)
(* graph loader and the process_directory pipeline.                        *)
(*                                                                         *)
(* Strings are sequences of code points (Python str): 32 is ' ', 46 is     *)
(* '.', 65..90 are 'A'..'Z', 97..122 are 'a'..'z'.  Tuples of strings are  *)
(* compared as Python compares them (lexicographically, by code point).    *)
(***************************************************************************)
EXTENDS Integers, Sequences, FiniteSets, TLC

VARIABLES
    \* normalize_entity(entity): the argument and the values returned so far
    entity, normalized,
    \* cluster_entities(entities, similarity_threshold): arguments and loop state
    entities, similarity_threshold, cst,
    \* merge_relations(relations, entity_clusters): arguments and result
    relations, entity_clusters, merged,
    \* analyze_relations(relations): argument and result
    arelations, relation_stats,
    \* process_directory: the input directory, the loader's loop, the pipeline
    files, fidx, graphs, diagnostics, pc, set_order, clustered_graph,
    written, printed

vars == <<entity, normalized, entities, similarity_threshold, cst,
          relations, entity_clusters, merged, arelations, relation_stats,
          files, fidx, graphs, diagnostics, pc, set_order, clustered_graph,
          written, printed>>

normVars == <<entity, normalized>>
clusterVars == <<entities, similarity_threshold, cst>>
mergeVars == <<relations, entity_clusters, merged>>
analyzeVars == <<arelations, relation_stats>>
processVars == <<files, fidx, graphs, diagnostics, pc, set_order,
                 clustered_graph, written, printed>>

-----------------------------------------------------------------------------
(* Bounds of the model *)

\* longest entity string given to normalize_entity
MaxLen == 5

\* longest entity list given to cluster_entities
MaxEntities == 3

\* longest relation list given to merge_relations
MaxRelations == 3

\* most relations put before or after the base list given to analyze_relations
MaxExtra == 3

\* most files in the input directory of process_directory
MaxFiles == 2

-----------------------------------------------------------------------------
(* Python str primitives *)

\* str.isspace / regex \s on the modelled code points
IsSpace(c) == c \in {9, 10, 11, 12, 13, 32}

\* regex \w on the modelled code points: letters, digits, underscore
IsWord(c) == \/ (c >= 97 /\ c <= 122)
             \/ (c >= 65 /\ c <= 90)
             \/ (c >= 48 /\ c <= 57)
             \/ c = 95

\* str.lower on one code point
LowerChar(c) == IF c >= 65 /\ c <= 90 THEN c + 32 ELSE c

\* str.lower
Lower(s) == [k \in 1..Len(s) |-> LowerChar(s[k])]

\* number of whitespace code points of s starting at position p (1-based)
RECURSIVE SpaceRun(_, _)
SpaceRun(s, p) ==
    IF p <= Len(s) /\ IsSpace(s[p]) THEN 1 + SpaceRun(s, p + 1) ELSE 0

\* number of whitespace code points at the end of s
RECURSIVE TrailingSpaces(_)
TrailingSpaces(s) ==
    IF Len(s) > 0 /\ IsSpace(s[Len(s)])
    THEN 1 + TrailingSpaces(SubSeq(s, 1, Len(s) - 1))
    ELSE 0

\* str.strip()
Strip(s) ==
    LET lead == SpaceRun(s, 1)
    IN  IF lead = Len(s) THEN <<>>
        ELSE SubSeq(s, lead + 1, Len(s) - TrailingSpaces(s))

\* s[:n]
Prefix(s, n) == SubSeq(s, 1, IF Len(s) < n THEN Len(s) ELSE n)

\* number of non-whitespace code points of s starting at position p
RECURSIVE TokenRun(_, _)
TokenRun(s, p) ==
    IF p <= Len(s) /\ ~IsSpace(s[p]) THEN 1 + TokenRun(s, p + 1) ELSE 0

\* s.split() has no element: s is empty or all whitespace
SplitIsEmpty(s) == SpaceRun(s, 1) = Len(s)

\* s.split()[0], for a string where split() is not empty
FirstToken(s) ==
    LET lead == SpaceRun(s, 1)
    IN  SubSeq(s, lead + 1, lead + TokenRun(s, lead + 1))

\* a < b on str
RECURSIVE StrLess(_, _)
StrLess(a, b) ==
    IF Len(b) = 0 THEN FALSE
    ELSE IF Len(a) = 0 THEN TRUE
    ELSE IF a[1] # b[1] THEN a[1] < b[1]
    ELSE StrLess(Tail(a), Tail(b))

\* a < b on tuples of str
RECURSIVE TupleLess(_, _)
TupleLess(a, b) ==
    IF Len(b) = 0 THEN FALSE
    ELSE IF Len(a) = 0 THEN TRUE
    ELSE IF a[1] # b[1] THEN StrLess(a[1], b[1])
    ELSE TupleLess(Tail(a), Tail(b))

-----------------------------------------------------------------------------
(* normalize_entity *)

\* the alternatives of (il|la|lo|i|gli|le|un|uno|una)
Articles ==
    { <<105, 108>>, <<108, 97>>, <<108, 111>>, <<105>>, <<103, 108, 105>>,
      <<108, 101>>, <<117, 110>>, <<117, 110, 111>>, <<117, 110, 97>> }

\* s has t as a substring starting right after position p
HasAt(s, p, t) == /\ p + Len(t) <= Len(s)
                  /\ SubSeq(s, p + 1, p + Len(t)) = t

\* re.sub(r'^\s*(il|la|lo|i|gli|le|un|uno|una)\s+', '', s)
StripArticle(s) ==
    LET lead == SpaceRun(s, 1)
        hits == { a \in Articles :
                    /\ HasAt(s, lead, a)
                    /\ SpaceRun(s, lead + Len(a) + 1) > 0 }
    IN  IF hits = {} THEN s
        ELSE LET a == CHOOSE x \in hits : TRUE
                 cut == lead + Len(a) + SpaceRun(s, lead + Len(a) + 1)
             IN  SubSeq(s, cut + 1, Len(s))

\* re.sub(r'[^\w\s]', '', s)
RemovePunct(s) == SelectSeq(s, LAMBDA c : IsWord(c) \/ IsSpace(c))

normalize_entity(e) == Strip(RemovePunct(StripArticle(Lower(e))))

-----------------------------------------------------------------------------
(* Inputs of the normalize_entity specification *)

\* code points the entity strings are drawn from: 'i', 'l', ' ', '.', 'I'
Alphabet == {105, 108, 32, 46, 73}

StringsUpTo(n) == UNION { [1..k -> Alphabet] : k \in 0..n }

InitNormalize ==
    /\ entity \in StringsUpTo(MaxLen)
    /\ normalized = <<>>

\* one call of normalize_entity, on the entity or on the previous result
NormalizeCall ==
    /\ Len(normalized) < 2
    /\ normalized' = Append(normalized,
          normalize_entity(IF normalized = <<>> THEN entity
                           ELSE normalized[Len(normalized)]))
    /\ UNCHANGED entity

-----------------------------------------------------------------------------
(* similar: difflib.SequenceMatcher(None, a, b).ratio() >= threshold *)

\* length of the common run of a from i and b from j, inside a[..ahi), b[..bhi)
RECURSIVE CommonRun(_, _, _, _, _, _)
CommonRun(a, b, i, j, ahi, bhi) ==
    IF i < ahi /\ j < bhi /\ a[i] = b[j]
    THEN 1 + CommonRun(a, b, i + 1, j + 1, ahi, bhi)
    ELSE 0

\* SequenceMatcher.find_longest_match(alo, ahi, blo, bhi) with no junk: the
\* longest matching block, the earliest in a and of those the earliest in b
\* (positions are 1-based, ahi and bhi exclusive)
FindLongestMatch(a, b, alo, ahi, blo, bhi) ==
    LET starts == (alo..(ahi - 1)) \X (blo..(bhi - 1))
        sizes == [p \in starts |-> CommonRun(a, b, p[1], p[2], ahi, bhi)]
        maxk == CHOOSE k \in {sizes[p] : p \in starts} :
                  \A q \in starts : sizes[q] <= k
        bests == {p \in starts : sizes[p] = maxk}
        best == CHOOSE p \in bests :
                  \A q \in bests : \/ p[1] < q[1]
                                   \/ (p[1] = q[1] /\ p[2] <= q[2])
    IN  [i |-> best[1], j |-> best[2], k |-> maxk]

\* sum of the sizes of SequenceMatcher.get_matching_blocks()
RECURSIVE MatchCount(_, _, _, _, _, _)
MatchCount(a, b, alo, ahi, blo, bhi) ==
    IF alo >= ahi \/ blo >= bhi THEN 0
    ELSE LET m == FindLongestMatch(a, b, alo, ahi, blo, bhi)
         IN  IF m.k = 0 THEN 0
             ELSE m.k + MatchCount(a, b, alo, m.i, blo, m.j)
                      + MatchCount(a, b, m.i + m.k, ahi, m.j + m.k, bhi)

\* similar(a, b, threshold), the threshold in hundredths:
\* ratio() is 2.0 * matches / (len(a) + len(b)), and 1.0 for two empty strings
similar(a, b, threshold) ==
    LET total == Len(a) + Len(b)
    IN  IF total = 0 THEN 100 >= threshold
        ELSE 200 * MatchCount(a, b, 1, Len(a) + 1, 1, Len(b) + 1)
                >= threshold * total

-----------------------------------------------------------------------------
(* cluster_entities *)

\* a dict with list values, in insertion order, as a sequence of
\* [rep, members] records; d[key].append(x) on a defaultdict(list)
DictAppend(d, key, x) ==
    IF \E k \in 1..Len(d) : d[k].rep = key
    THEN [k \in 1..Len(d) |->
            IF d[k].rep = key
            THEN [rep |-> key, members |-> Append(d[k].members, x)]
            ELSE d[k]]
    ELSE Append(d, [rep |-> key, members |-> <<x>>])

\* the state of cluster_entities before its first iteration
ClusterStart ==
    [pc |-> "outer", i |-> 1, j |-> 1, used |-> {}, clusters |-> <<>>]

\* the test of lines 57-59 without the comparison of the first 5 characters
CompareNoPrefix(norm1, norm2, threshold) ==
    IF similar(norm1, norm2, threshold) THEN "join"
    ELSE IF SplitIsEmpty(norm1) \/ SplitIsEmpty(norm2) THEN "raise"
    ELSE IF FirstToken(norm1) = FirstToken(norm2) THEN "join"
    ELSE "no"

\* the test of lines 57-59 on two normalized forms: "join", "no" or, when
\* split() of either is empty and similar() was false, "raise" (IndexError)
Compare(norm1, norm2, threshold) ==
    IF similar(norm1, norm2, threshold) THEN "join"
    ELSE IF SplitIsEmpty(norm1) \/ SplitIsEmpty(norm2) THEN "raise"
    ELSE IF FirstToken(norm1) = FirstToken(norm2) THEN "join"
    ELSE IF Prefix(norm1, 5) = Prefix(norm2, 5) THEN "join"
    ELSE "no"

\* one iteration of the outer loop (lines 43-49), positions 1-based
OuterStep(ents, st) ==
    IF st.i > Len(ents) THEN [st EXCEPT !.pc = "returned"]
    ELSE IF st.i \in st.used THEN [st EXCEPT !.i = st.i + 1]
    ELSE [st EXCEPT !.clusters = DictAppend(st.clusters, ents[st.i], ents[st.i]),
                    !.used = st.used \cup {st.i},
                    !.j = st.i + 1,
                    !.pc = "inner"]

\* InnerStep with line 61 left out: a joined entity is not marked consumed
InnerStepNoMark(ents, threshold, st) ==
    IF st.j > Len(ents) THEN [st EXCEPT !.pc = "outer", !.i = st.i + 1]
    ELSE IF st.j \in st.used THEN [st EXCEPT !.j = st.j + 1]
    ELSE LET c == Compare(normalize_entity(ents[st.i]),
                          normalize_entity(ents[st.j]), threshold)
         IN  IF c = "raise" THEN [st EXCEPT !.pc = "raised"]
             ELSE IF c = "join"
             THEN [st EXCEPT
                     !.clusters = DictAppend(st.clusters, ents[st.i], ents[st.j]),
                     !.j = st.j + 1]
             ELSE [st EXCEPT !.j = st.j + 1]

\* InnerStep comparing the raw strings instead of their normalized forms
InnerStepRaw(ents, threshold, st) ==
    IF st.j > Len(ents) THEN [st EXCEPT !.pc = "outer", !.i = st.i + 1]
    ELSE IF st.j \in st.used THEN [st EXCEPT !.j = st.j + 1]
    ELSE LET c == Compare(ents[st.i], ents[st.j], threshold)
         IN  IF c = "raise" THEN [st EXCEPT !.pc = "raised"]
             ELSE IF c = "join"
             THEN [st EXCEPT
                     !.clusters = DictAppend(st.clusters, ents[st.i], ents[st.j]),
                     !.used = st.used \cup {st.j},
                     !.j = st.j + 1]
             ELSE [st EXCEPT !.j = st.j + 1]

\* one iteration of the inner loop (lines 52-61)
InnerStep(ents, threshold, st) ==
    IF st.j > Len(ents) THEN [st EXCEPT !.pc = "outer", !.i = st.i + 1]
    ELSE IF st.j \in st.used THEN [st EXCEPT !.j = st.j + 1]
    ELSE LET c == Compare(normalize_entity(ents[st.i]),
                          normalize_entity(ents[st.j]), threshold)
         IN  IF c = "raise" THEN [st EXCEPT !.pc = "raised"]
             ELSE IF c = "join"
             THEN [st EXCEPT
                     !.clusters = DictAppend(st.clusters, ents[st.i], ents[st.j]),
                     !.used = st.used \cup {st.j},
                     !.j = st.j + 1]
             ELSE [st EXCEPT !.j = st.j + 1]

ClusterStep(ents, threshold, st) ==
    IF st.pc = "outer" THEN OuterStep(ents, st)
    ELSE InnerStep(ents, threshold, st)

\* cluster_entities run to its end: the final state, whose pc is "returned"
\* (clusters is the dict returned) or "raised"
RECURSIVE RunCluster(_, _, _)
RunCluster(ents, threshold, st) ==
    IF st.pc \in {"returned", "raised"} THEN st
    ELSE RunCluster(ents, threshold, ClusterStep(ents, threshold, st))

cluster_entities(ents, threshold) == RunCluster(ents, threshold, ClusterStart)


-----------------------------------------------------------------------------
(* merge_relations *)

\* every entity left as it is, as if entity_to_cluster were empty
ResolveSelf(ec, e) == e

\* entity_to_cluster.get(e, e) after lines 72-74: the representative of the
\* last cluster, in dict order, that lists e; e itself when none does
Resolve(ec, e) ==
    LET ks == { k \in 1..Len(ec) : e \in { ec[k].members[m] : m \in 1..Len(ec[k].members) } }
    IN  IF ks = {} THEN e
        ELSE ec[CHOOSE k \in ks : \A q \in ks : q <= k].rep

\* ['is', 'has', 'of']
Stoplist == { <<105, 115>>, <<104, 97, 115>>, <<111, 102>> }

\* the filter of lines 82-84 on a resolved triple
Dropped(new_src, rel, new_tgt) ==
    \/ Lower(new_src) = Lower(new_tgt)
    \/ Len(Strip(rel)) < 3
    \/ Lower(rel) \in Stoplist

\* lines 76-87 with the filter applied to the raw endpoints
MergedSetRawFilter(rels, ec) ==
    { <<Resolve(ec, rels[k][1]), rels[k][2], Resolve(ec, rels[k][3])>> :
        k \in { q \in 1..Len(rels) :
                  ~Dropped(rels[q][1], rels[q][2], rels[q][3]) } }

\* the set merged_relations after the loop of lines 76-87
MergedSet(rels, ec) ==
    { <<Resolve(ec, rels[k][1]), rels[k][2], Resolve(ec, rels[k][3])>> :
        k \in { q \in 1..Len(rels) :
                  ~Dropped(Resolve(ec, rels[q][1]), rels[q][2],
                           Resolve(ec, rels[q][3])) } }

\* sorted() in descending order
RECURSIVE SortedDescending(_)
SortedDescending(S) ==
    IF S = {} THEN <<>>
    ELSE LET m == CHOOSE x \in S : \A y \in S : y = x \/ TupleLess(y, x)
         IN  <<m>> \o SortedDescending(S \ {m})

\* sorted(S) for a set of tuples of str
RECURSIVE Sorted(_)
Sorted(S) ==
    IF S = {} THEN <<>>
    ELSE LET m == CHOOSE x \in S : \A y \in S : y = x \/ TupleLess(x, y)
         IN  <<m>> \o Sorted(S \ {m})

merge_relations(rels, ec) == Sorted(MergedSet(rels, ec))

-----------------------------------------------------------------------------
(* analyze_relations *)

\* d[key] += 1 on a defaultdict(int), a dict in insertion order being a
\* sequence of <<key, count>> items
DictIncr(d, key) ==
    IF \E k \in 1..Len(d) : d[k][1] = key
    THEN [k \in 1..Len(d) |-> IF d[k][1] = key THEN <<key, d[k][2] + 1>> ELSE d[k]]
    ELSE Append(d, <<key, 1>>)

\* rel_counts after the loop of lines 96-98 over rels
RECURSIVE RelCounts(_)
RelCounts(rels) ==
    IF rels = <<>> THEN <<>>
    ELSE DictIncr(RelCounts(SubSeq(rels, 1, Len(rels) - 1)),
                  Lower(rels[Len(rels)][2]))

\* entity_pairs after the loop of lines 96-98 over rels
RECURSIVE EntityPairs(_)
EntityPairs(rels) ==
    IF rels = <<>> THEN <<>>
    ELSE DictIncr(EntityPairs(SubSeq(rels, 1, Len(rels) - 1)),
                  <<Lower(rels[Len(rels)][1]), Lower(rels[Len(rels)][3])>>)

\* the items left in their insertion order
Unsorted(items) == items

\* sorted(items, key=lambda x: -x[1]): stable, by descending count
RECURSIVE SortByCount(_)
SortByCount(items) ==
    IF items = <<>> THEN <<>>
    ELSE LET k == CHOOSE a \in 1..Len(items) :
                    /\ \A b \in 1..Len(items) : items[b][2] <= items[a][2]
                    /\ \A b \in 1..(a - 1) : items[b][2] < items[a][2]
         IN  <<items[k]>> \o
             SortByCount(SubSeq(items, 1, k - 1) \o SubSeq(items, k + 1, Len(items)))

\* items[:n]
Take(items, n) == SubSeq(items, 1, IF Len(items) < n THEN Len(items) ELSE n)

\* the slice bounds of lines 101 and 102
TopRelations == 10
CommonPairs == 5

analyze_relations(rels) ==
    [top_relations |-> Take(SortByCount(RelCounts(rels)), TopRelations),
     common_entity_pairs |-> Take(SortByCount(EntityPairs(rels)), CommonPairs)]

-----------------------------------------------------------------------------
(* load_graphs_from_directory *)

\* line 14: file.endswith('.json') and not file.startswith('aggregated')
IsCandidate(file) == file.json /\ ~file.aggregated

\* lines 17-18 raise: open() fails or json.load() fails
LoadRaises(file) == file.kind \in {"unreadable", "malformed"}

\* line 19: isinstance(graph, dict) and 'entities' in graph
IsGraph(file) == file.kind = "dict" /\ file.has_entities

\* the parsed value of a file
GraphOf(file) == [entities |-> file.entities, relations |-> file.relations]

\* the loop body with no try/except: the first file that raises ends the walk
LoadStepNoCatch(fs, st) ==
    LET file == fs[st.fidx]
    IN  IF ~IsCandidate(file) THEN [st EXCEPT !.fidx = st.fidx + 1]
        ELSE IF LoadRaises(file)
        THEN [st EXCEPT !.fidx = Len(fs) + 1,
                        !.diagnostics = Append(st.diagnostics, <<"Error loading", st.fidx>>)]
        ELSE [fidx |-> st.fidx + 1,
              graphs |-> IF IsGraph(file) THEN Append(st.graphs, GraphOf(file))
                         ELSE st.graphs,
              diagnostics |-> Append(st.diagnostics, <<"Loaded graph from", st.fidx>>)]

\* one iteration of `for file in files` (lines 13-23) on the loader's state
LoadStep(fs, st) ==
    LET file == fs[st.fidx]
    IN  IF ~IsCandidate(file) THEN [st EXCEPT !.fidx = st.fidx + 1]
        ELSE IF LoadRaises(file)
        THEN [st EXCEPT !.fidx = st.fidx + 1,
                        !.diagnostics = Append(st.diagnostics, <<"Error loading", st.fidx>>)]
        ELSE [fidx |-> st.fidx + 1,
              graphs |-> IF IsGraph(file) THEN Append(st.graphs, GraphOf(file))
                         ELSE st.graphs,
              diagnostics |-> Append(st.diagnostics, <<"Loaded graph from", st.fidx>>)]

-----------------------------------------------------------------------------
(* cluster_knowledge_graphs *)

\* all_entities after lines 110-112
AllEntities(gs) ==
    UNION { { gs[k].entities[m] : m \in 1..Len(gs[k].entities) } : k \in 1..Len(gs) }

\* all_relations after lines 110-112
AllRelations(gs) ==
    UNION { { gs[k].relations[m] : m \in 1..Len(gs[k].relations) } : k \in 1..Len(gs) }

\* list(S): the elements of the set S, each once, in one of its orders
ListsOfSet(S) ==
    { f \in [1..Cardinality(S) -> S] :
        \A a, b \in 1..Cardinality(S) : a # b => f[a] # f[b] }

\* sorted(S) for a set of str
RECURSIVE SortedStrings(_)
SortedStrings(S) ==
    IF S = {} THEN <<>>
    ELSE LET m == CHOOSE x \in S : \A y \in S : y = x \/ StrLess(x, y)
         IN  <<m>> \o SortedStrings(S \ {m})

\* cluster_knowledge_graphs(gs, threshold) when list(all_entities) is elist
\* and list(all_relations) is rlist: raised when cluster_entities raises,
\* the dict of lines 125-137 otherwise
cluster_knowledge_graphs(gs, threshold, elist, rlist) ==
    LET c == cluster_entities(elist, threshold)
        merged_relations == merge_relations(rlist, c.clusters)
    IN  IF c.pc = "raised" THEN [raised |-> TRUE, graph |-> <<>>]
        ELSE [raised |-> FALSE, graph |->
             [entities |-> SortedStrings({ c.clusters[k].rep : k \in 1..Len(c.clusters) }),
              relations |-> merged_relations,
              edges |-> SortedStrings({ merged_relations[k][2] :
                                          k \in 1..Len(merged_relations) }),
              entity_clusters |-> c.clusters,
              stats |-> [original_entities |-> Cardinality(AllEntities(gs)),
                         clustered_entities |-> Len(c.clusters),
                         original_relations |-> Cardinality(AllRelations(gs)),
                         merged_relations |-> Len(merged_relations),
                         relation_analysis |-> analyze_relations(merged_relations)]]]

-----------------------------------------------------------------------------
(* process_directory *)

\* line 173 never true: the pipeline goes on without graphs
NoGraphsNever(gs) == FALSE

\* line 173: `not graphs`
NoGraphs(gs) == gs = <<>>

\* line 197 divides by stats['original_entities']
StatsRaise(graph) == graph.stats.original_entities = 0

-----------------------------------------------------------------------------
(* Values of the variables of the operations a specification does not run *)

IdleNormalize == entity = <<>> /\ normalized = <<>>

IdleCluster ==
    /\ entities = <<>>
    /\ similarity_threshold = 85
    /\ cst = ClusterStart

NotCalled == [called |-> FALSE, result |-> <<>>]

IdleMerge == relations = <<>> /\ entity_clusters = <<>> /\ merged = NotCalled

IdleAnalyze == arelations = <<>> /\ relation_stats = NotCalled

IdleProcess ==
    /\ files = <<>>
    /\ fidx = 1
    /\ graphs = <<>>
    /\ diagnostics = <<>>
    /\ pc = "idle"
    /\ set_order = <<>>
    /\ clustered_graph = NotCalled
    /\ written = <<>>
    /\ printed = <<>>

-----------------------------------------------------------------------------
(* Specification of normalize_entity applied twice *)

InitN ==
    /\ InitNormalize
    /\ IdleCluster /\ IdleMerge /\ IdleAnalyze /\ IdleProcess

NextN ==
    /\ NormalizeCall
    /\ UNCHANGED <<clusterVars, mergeVars, analyzeVars, processVars>>

SpecNormalize == InitN /\ [][NextN]_vars

\* C2: normalize_entity is idempotent: the second application returns what
\* the first returned.
C2_Idempotent ==
    Len(normalized) = 2 => normalized[2] = normalized[1]

-----------------------------------------------------------------------------
(* Specification of cluster_entities *)

Range(s) == {s[k] : k \in 1..Len(s)}

\* lists of distinct elements of S, of length at most n
DistinctLists(S, n) ==
    { s \in UNION { [1..k -> S] : k \in 0..n } :
        \A a, b \in 1..Len(s) : a # b => s[a] # s[b] }

\* "Il Cane", "cane", "cane nero", "ab", "abc", "bc", "...", "canes",
\* "canestro"
EntityPool ==
    { <<73, 108, 32, 67, 97, 110, 101>>, <<99, 97, 110, 101>>,
      <<99, 97, 110, 101, 32, 110, 101, 114, 111>>,
      <<97, 98>>, <<97, 98, 99>>, <<98, 99>>, <<46, 46, 46>>,
      <<99, 97, 110, 101, 115>>, <<99, 97, 110, 101, 115, 116, 114, 111>> }

\* similarity thresholds in hundredths: 0.85 (the default) and 0.8 (__main__)
Thresholds == {85, 80}

InitC ==
    /\ entities \in DistinctLists(EntityPool, MaxEntities)
    /\ similarity_threshold \in Thresholds
    /\ cst = ClusterStart
    /\ IdleNormalize /\ IdleMerge /\ IdleAnalyze /\ IdleProcess

\* one iteration of `for i, (norm1, orig1) in enumerate(...)`, or the return
ClusterOuter ==
    /\ cst.pc = "outer"
    /\ cst' = ClusterStep(entities, similarity_threshold, cst)
    /\ UNCHANGED <<entities, similarity_threshold>>

\* one iteration of `for j, (norm2, orig2) in enumerate(...)`
ClusterInner ==
    /\ cst.pc = "inner"
    /\ cst' = ClusterStep(entities, similarity_threshold, cst)
    /\ UNCHANGED <<entities, similarity_threshold>>

OthersC == UNCHANGED <<normVars, mergeVars, analyzeVars, processVars>>

NextC ==
    \/ ClusterOuter /\ OthersC
    \/ ClusterInner /\ OthersC

SpecCluster == InitC /\ [][NextC]_vars

\* the places (cluster, position) where entity e is a member
Places(cl, e) ==
    { p \in (1..Len(cl)) \X (1..MaxEntities + 1) :
        p[2] <= Len(cl[p[1]].members) /\ cl[p[1]].members[p[2]] = e }

\* all members of all clusters
AllMembers(cl) == UNION { Range(cl[k].members) : k \in 1..Len(cl) }

\* C1: whenever cluster_entities returns, the member lists of the returned
\* clusters partition the input list: their union is the set of input
\* entities and every input entity is at exactly one place of one list.
C1_Partition ==
    cst.pc = "returned" =>
        /\ AllMembers(cst.clusters) = Range(entities)
        /\ \A e \in Range(entities) : Cardinality(Places(cst.clusters, e)) = 1

\* a returned run that grouped two entities and left a third apart
C1_Witness ==
    /\ cst.pc = "returned"
    /\ Len(entities) = 3
    /\ Len(cst.clusters) = 2


\* the permutations of 1..n
Perms(n) == { f \in [1..n -> 1..n] : \A a, b \in 1..n : a # b => f[a] # f[b] }

\* the list s in the order f
Permute(s, f) == [k \in 1..Len(s) |-> s[f[k]]]

\* a cluster dict as the set of its clusters, each the set of the normalized
\* forms of its members
NormPartition(cl) ==
    { { normalize_entity(m) : m \in Range(cl[k].members) } : k \in 1..Len(cl) }

\* a and b are members of one cluster of cl
SameCluster(cl, a, b) ==
    \E k \in 1..Len(cl) : {a, b} \subseteq Range(cl[k].members)

\* C5 as claimed: every permutation of the entity list yields the same
\* partition, each cluster viewed as the set of normalized forms of its
\* members.
C5_OrderIndependent ==
    cst.pc = "returned" =>
        \A f \in Perms(Len(entities)) :
            LET r == cluster_entities(Permute(entities, f), similarity_threshold)
            IN  r.pc = "returned" =>
                  NormPartition(r.clusters) = NormPartition(cst.clusters)

\* C5 as amended: every permutation of the entity list that returns yields a
\* partition of the same entity set, and in each of them two entities with
\* equal normalized forms are members of the same cluster.
C5_EqualNormsTogether ==
    cst.pc = "returned" =>
        \A f \in Perms(Len(entities)) :
            LET r == cluster_entities(Permute(entities, f), similarity_threshold)
            IN  r.pc = "returned" =>
                  /\ AllMembers(r.clusters) = AllMembers(cst.clusters)
                  /\ \A a, b \in Range(entities) :
                        normalize_entity(a) = normalize_entity(b) =>
                           /\ SameCluster(r.clusters, a, b)
                           /\ SameCluster(cst.clusters, a, b)

\* a returned run on three entities, two of them with equal normalized
\* forms, that another order of the same list groups differently
C5_Witness ==
    /\ cst.pc = "returned"
    /\ Len(entities) = 3
    /\ \E a, b \in Range(entities) :
          a # b /\ normalize_entity(a) = normalize_entity(b)
    /\ \E f \in Perms(Len(entities)) :
          LET r == cluster_entities(Permute(entities, f), similarity_threshold)
          IN  r.pc = "returned" /\ r.clusters # cst.clusters


-----------------------------------------------------------------------------
(* Specification of merge_relations *)

\* all lists over S of length at most n
ListsUpTo(S, n) == UNION { [1..k -> S] : k \in 0..n }

\* ("Il Cane","is","Gatto"), ("cane","mangia","carne"),
\* ("Il Cane","mangia","carne"), ("Il Cane","vede","cane"),
\* ("Gatto","vede","GATTO"), ("Gatto","HAS","carne"), ("Gatto"," a ","carne"),
\* ("Gatto","ama","cane"), ("Gatto"," has","carne")
RelationPool ==
    { << <<73, 108, 32, 67, 97, 110, 101>>, <<105, 115>>, <<71, 97, 116, 116, 111>> >>,
      << <<99, 97, 110, 101>>, <<109, 97, 110, 103, 105, 97>>, <<99, 97, 114, 110, 101>> >>,
      << <<73, 108, 32, 67, 97, 110, 101>>, <<109, 97, 110, 103, 105, 97>>, <<99, 97, 114, 110, 101>> >>,
      << <<73, 108, 32, 67, 97, 110, 101>>, <<118, 101, 100, 101>>, <<99, 97, 110, 101>> >>,
      << <<71, 97, 116, 116, 111>>, <<118, 101, 100, 101>>, <<71, 65, 84, 84, 79>> >>,
      << <<71, 97, 116, 116, 111>>, <<72, 65, 83>>, <<99, 97, 114, 110, 101>> >>,
      << <<71, 97, 116, 116, 111>>, <<32, 97, 32>>, <<99, 97, 114, 110, 101>> >>,
      << <<71, 97, 116, 116, 111>>, <<97, 109, 97>>, <<99, 97, 110, 101>> >>,
      << <<71, 97, 116, 116, 111>>, <<32, 104, 97, 115>>, <<99, 97, 114, 110, 101>> >> }

\* cluster dicts as cluster_entities returns them: {}, the dict of
\* ["Il Cane", "cane", "Gatto"], and the dict of ["cane", "Il Cane"]
ClusterDictPool ==
    { <<>>,
      << [rep |-> <<73, 108, 32, 67, 97, 110, 101>>,
          members |-> << <<73, 108, 32, 67, 97, 110, 101>>, <<99, 97, 110, 101>> >>],
         [rep |-> <<71, 97, 116, 116, 111>>,
          members |-> << <<71, 97, 116, 116, 111>> >>] >>,
      << [rep |-> <<99, 97, 110, 101>>,
          members |-> << <<99, 97, 110, 101>>, <<73, 108, 32, 67, 97, 110, 101>> >>] >> }

InitM ==
    /\ relations \in ListsUpTo(RelationPool, MaxRelations)
    /\ entity_clusters \in ClusterDictPool
    /\ merged = NotCalled
    /\ IdleNormalize /\ IdleCluster /\ IdleAnalyze /\ IdleProcess

MergeCall ==
    /\ ~merged.called
    /\ merged' = [called |-> TRUE,
                  result |-> merge_relations(relations, entity_clusters)]
    /\ UNCHANGED <<relations, entity_clusters>>

NextM ==
    /\ MergeCall
    /\ UNCHANGED <<normVars, clusterVars, analyzeVars, processVars>>

SpecMerge == InitM /\ [][NextM]_vars

\* C3: every returned triple (s, r, t) has lower(s) # lower(t), a predicate of
\* trimmed length at least 3 and a lower-cased predicate outside the
\* stoplist; in particular no returned triple has two equal endpoints, also
\* when the raw endpoints of the relation differed.
C3_OutputFiltered ==
    merged.called =>
        \A k \in 1..Len(merged.result) :
            LET t == merged.result[k]
            IN  /\ Lower(t[1]) # Lower(t[3])
                /\ Len(Strip(t[2])) >= 3
                /\ Lower(t[2]) \notin { <<105, 115>>, <<104, 97, 115>>, <<111, 102>> }

\* the representative of the cluster of ec that has e as a member, e when
\* there is none
RepOf(ec, e) ==
    IF \E k \in 1..Len(ec) : e \in Range(ec[k].members)
    THEN ec[CHOOSE k \in 1..Len(ec) : e \in Range(ec[k].members)].rep
    ELSE e

\* a call whose input has a relation with different raw endpoints of the same
\* cluster and an informative predicate, and which returned some triple
C3_Witness ==
    /\ merged.called
    /\ Len(merged.result) >= 1
    /\ \E k \in 1..Len(relations) :
          /\ relations[k][1] # relations[k][3]
          /\ Lower(relations[k][1]) # Lower(relations[k][3])
          /\ RepOf(entity_clusters, relations[k][1])
               = RepOf(entity_clusters, relations[k][3])
          /\ Len(Strip(relations[k][2])) >= 3

\* C4: the returned list is in strictly ascending order of the tuples, hence
\* without duplicates.
C4_StrictlySorted ==
    merged.called =>
        \A k \in 1..(Len(merged.result) - 1) :
            TupleLess(merged.result[k], merged.result[k + 1])

\* a call with two different raw relations that resolve to one triple, which
\* returned at least two triples
C4_Witness ==
    /\ merged.called
    /\ Len(merged.result) >= 2
    /\ \E a, b \in 1..Len(relations) :
          /\ relations[a] # relations[b]
          /\ relations[a][2] = relations[b][2]
          /\ RepOf(entity_clusters, relations[a][1]) = RepOf(entity_clusters, relations[b][1])
          /\ RepOf(entity_clusters, relations[a][3]) = RepOf(entity_clusters, relations[b][3])
          /\ <<RepOf(entity_clusters, relations[a][1]), relations[a][2],
               RepOf(entity_clusters, relations[a][3])>> \in Range(merged.result)

\* C9: the returned triples are exactly the triples (rep(src), rel, rep(tgt))
\* of the input relations whose resolved triple passes the three filters,
\* the predicate unchanged.
C9_ExactOutput ==
    merged.called =>
        Range(merged.result) =
            { t \in { <<RepOf(entity_clusters, relations[k][1]), relations[k][2],
                        RepOf(entity_clusters, relations[k][3])>> :
                      k \in 1..Len(relations) } :
                /\ Lower(t[1]) # Lower(t[3])
                /\ Len(Strip(t[2])) >= 3
                /\ Lower(t[2]) \notin { <<105, 115>>, <<104, 97, 115>>, <<111, 102>> } }

\* a call that returned a triple with one endpoint rewritten to its
\* representative and one endpoint that is a member of no cluster
C9_Witness ==
    /\ merged.called
    /\ \E k \in 1..Len(relations) :
          /\ RepOf(entity_clusters, relations[k][1]) # relations[k][1]
          /\ \A q \in 1..Len(entity_clusters) :
                relations[k][3] \notin Range(entity_clusters[q].members)
          /\ <<RepOf(entity_clusters, relations[k][1]), relations[k][2],
               relations[k][3]>> \in Range(merged.result)


-----------------------------------------------------------------------------
(* Specification of analyze_relations *)

\* nine relations with nine predicates and four (source, target) pairs:
\*   ('cane', 'ama', 'carne')
\*   ('cane', 'usa', 'carne')
\*   ('gatto', 'vede', 'cane')
\*   ('cane', 'mangia', 'gatto')
\*   ('gatto', 'teme', 'carne')
\*   ('cane', 'apre', 'carne')
\*   ('gatto', 'cura', 'cane')
\*   ('cane', 'dona', 'gatto')
\*   ('gatto', 'evita', 'carne')
AnalyzeBase ==
    << << <<99, 97, 110, 101>>, <<97, 109, 97>>, <<99, 97, 114, 110, 101>> >>,
       << <<99, 97, 110, 101>>, <<117, 115, 97>>, <<99, 97, 114, 110, 101>> >>,
       << <<103, 97, 116, 116, 111>>, <<118, 101, 100, 101>>, <<99, 97, 110, 101>> >>,
       << <<99, 97, 110, 101>>, <<109, 97, 110, 103, 105, 97>>, <<103, 97, 116, 116, 111>> >>,
       << <<103, 97, 116, 116, 111>>, <<116, 101, 109, 101>>, <<99, 97, 114, 110, 101>> >>,
       << <<99, 97, 110, 101>>, <<97, 112, 114, 101>>, <<99, 97, 114, 110, 101>> >>,
       << <<103, 97, 116, 116, 111>>, <<99, 117, 114, 97>>, <<99, 97, 110, 101>> >>,
       << <<99, 97, 110, 101>>, <<100, 111, 110, 97>>, <<103, 97, 116, 116, 111>> >>,
       << <<103, 97, 116, 116, 111>>, <<101, 118, 105, 116, 97>>, <<99, 97, 114, 110, 101>> >> >>

\* relations with two more predicates and two more pairs, and relations that
\* differ from others only in case:
\*   ('lupo', 'fugge', 'cane')
\*   ('lupo', 'gira', 'gatto')
\*   ('Cane', 'AMA', 'Carne')
\*   ('Gatto', 'Evita', 'Carne')
\*   ('lupo', 'Gira', 'cane')
AnalyzeExtra ==
    { << <<108, 117, 112, 111>>, <<102, 117, 103, 103, 101>>, <<99, 97, 110, 101>> >>,
      << <<108, 117, 112, 111>>, <<103, 105, 114, 97>>, <<103, 97, 116, 116, 111>> >>,
      << <<67, 97, 110, 101>>, <<65, 77, 65>>, <<67, 97, 114, 110, 101>> >>,
      << <<71, 97, 116, 116, 111>>, <<69, 118, 105, 116, 97>>, <<67, 97, 114, 110, 101>> >>,
      << <<108, 117, 112, 111>>, <<71, 105, 114, 97>>, <<99, 97, 110, 101>> >> }

\* the base list with up to MaxExtra more relations before it or after it
InitA ==
    /\ \E x \in ListsUpTo(AnalyzeExtra, MaxExtra) :
          arelations \in {x \o AnalyzeBase, AnalyzeBase \o x}
    /\ relation_stats = NotCalled
    /\ IdleNormalize /\ IdleCluster /\ IdleMerge /\ IdleProcess

AnalyzeCall ==
    /\ ~relation_stats.called
    /\ relation_stats' = [called |-> TRUE, result |-> analyze_relations(arelations)]
    /\ UNCHANGED arelations

NextA ==
    /\ AnalyzeCall
    /\ UNCHANGED <<normVars, clusterVars, mergeVars, processVars>>

SpecAnalyze == InitA /\ [][NextA]_vars

\* number of relations of rels with lower-cased predicate p
PredCount(rels, p) ==
    Cardinality({ k \in 1..Len(rels) : Lower(rels[k][2]) = p })

\* number of relations of rels with lower-cased (source, target) pair q
PairCount(rels, q) ==
    Cardinality({ k \in 1..Len(rels) :
                    <<Lower(rels[k][1]), Lower(rels[k][3])>> = q })

PredKeys(rels) == { Lower(rels[k][2]) : k \in 1..Len(rels) }

PairKeys(rels) == { <<Lower(rels[k][1]), Lower(rels[k][3])>> : k \in 1..Len(rels) }

\* C10: top_relations has at most 10 entries and common_entity_pairs at most
\* 5; each entry's count is the number of input relations with that
\* lower-cased predicate (resp. lower-cased pair); counts do not increase
\* along either list; no key left out has a count above that of a listed one.
C10_AnalyzeCounts ==
    relation_stats.called =>
        LET top == relation_stats.result.top_relations
            pairs == relation_stats.result.common_entity_pairs
        IN  /\ Len(top) <= 10
            /\ Len(pairs) <= 5
            /\ \A k \in 1..Len(top) : top[k][2] = PredCount(arelations, top[k][1])
            /\ \A k \in 1..Len(pairs) : pairs[k][2] = PairCount(arelations, pairs[k][1])
            /\ \A k \in 1..(Len(top) - 1) : top[k][2] >= top[k + 1][2]
            /\ \A k \in 1..(Len(pairs) - 1) : pairs[k][2] >= pairs[k + 1][2]
            /\ \A p \in PredKeys(arelations) \ { top[k][1] : k \in 1..Len(top) } :
                  \A k \in 1..Len(top) : PredCount(arelations, p) <= top[k][2]
            /\ \A q \in PairKeys(arelations) \ { pairs[k][1] : k \in 1..Len(pairs) } :
                  \A k \in 1..Len(pairs) : PairCount(arelations, q) <= pairs[k][2]

\* a call on more than 10 predicates and more than 5 pairs, both lists full,
\* with a predicate counted twice through two spellings that differ in case
C10_Witness ==
    /\ relation_stats.called
    /\ Cardinality(PredKeys(arelations)) > 10
    /\ Cardinality(PairKeys(arelations)) > 5
    /\ Len(relation_stats.result.top_relations) = 10
    /\ Len(relation_stats.result.common_entity_pairs) = 5
    /\ \E a, b \in 1..Len(arelations) :
          /\ arelations[a][2] # arelations[b][2]
          /\ Lower(arelations[a][2]) = Lower(arelations[b][2])
          /\ <<Lower(arelations[a][2]), 2>> = relation_stats.result.top_relations[1]


-----------------------------------------------------------------------------
(* Specification of process_directory *)

\* the graph of "Il Cane", "cane" with ("Il Cane","is","Gatto") and
\* ("cane","mangia","carne")
GraphDog ==
    [kind |-> "dict", has_entities |-> TRUE,
     entities |-> << <<73, 108, 32, 67, 97, 110, 101>>, <<99, 97, 110, 101>> >>,
     relations |-> << << <<73, 108, 32, 67, 97, 110, 101>>, <<105, 115>>, <<71, 97, 116, 116, 111>> >>,
                      << <<99, 97, 110, 101>>, <<109, 97, 110, 103, 105, 97>>, <<99, 97, 114, 110, 101>> >> >>]

\* the graph of "Gatto", "cane" with ("Gatto","ama","cane") and no more
GraphCat ==
    [kind |-> "dict", has_entities |-> TRUE,
     entities |-> << <<71, 97, 116, 116, 111>>, <<99, 97, 110, 101>> >>,
     relations |-> << << <<71, 97, 116, 116, 111>>, <<97, 109, 97>>, <<99, 97, 110, 101>> >> >>]

\* {"entities": []}
GraphEmpty ==
    [kind |-> "dict", has_entities |-> TRUE, entities |-> <<>>, relations |-> <<>>]

\* what a file holds: nothing readable, no JSON, a JSON list, a JSON object
\* without "entities", or one of the graphs
NoContent(kind) ==
    [kind |-> kind, has_entities |-> FALSE, entities |-> <<>>, relations |-> <<>>]

Named(content, json, aggregated) ==
    [json |-> json, aggregated |-> aggregated, kind |-> content.kind,
     has_entities |-> content.has_entities, entities |-> content.entities,
     relations |-> content.relations]

\* the files a directory may hold: *.json files of every content, an
\* aggregated*.json file and a file of another extension holding a graph
FilePool ==
    { Named(c, TRUE, FALSE) :
        c \in { NoContent("unreadable"), NoContent("malformed"), NoContent("list"),
                NoContent("dict"), GraphDog, GraphCat, GraphEmpty } }
    \cup { Named(GraphDog, TRUE, TRUE), Named(GraphDog, FALSE, FALSE) }

InitP ==
    /\ files \in ListsUpTo(FilePool, MaxFiles)
    /\ similarity_threshold \in Thresholds
    /\ fidx = 1
    /\ graphs = <<>>
    /\ diagnostics = <<>>
    /\ pc = "start"
    /\ set_order = <<>>
    /\ clustered_graph = NotCalled
    /\ written = <<>>
    /\ printed = <<>>
    /\ entities = <<>> /\ cst = ClusterStart
    /\ IdleNormalize /\ IdleMerge /\ IdleAnalyze

\* lines 167-171: create the output directory, announce, call the loader
Start ==
    /\ pc = "start"
    /\ pc' = "load"
    /\ printed' = Append(printed, "Loading knowledge graphs")
    /\ UNCHANGED <<files, fidx, graphs, diagnostics, set_order, clustered_graph, written>>

\* one file of the walk (lines 13-23)
LoadFile ==
    /\ pc = "load"
    /\ fidx <= Len(files)
    /\ LET st == LoadStep(files, [fidx |-> fidx, graphs |-> graphs,
                                  diagnostics |-> diagnostics])
       IN  /\ fidx' = st.fidx
           /\ graphs' = st.graphs
           /\ diagnostics' = st.diagnostics
    /\ UNCHANGED <<files, pc, set_order, clustered_graph, written, printed>>

\* line 24: the loader returns
LoadReturn ==
    /\ pc = "load"
    /\ fidx > Len(files)
    /\ pc' = "check"
    /\ UNCHANGED <<files, fidx, graphs, diagnostics, set_order, clustered_graph,
                   written, printed>>

\* lines 173-175: no graph was loaded
EmptyReturn ==
    /\ pc = "check"
    /\ NoGraphs(graphs)
    /\ printed' = Append(printed, "No valid knowledge graphs found!")
    /\ pc' = "done"
    /\ UNCHANGED <<files, fidx, graphs, diagnostics, set_order, clustered_graph, written>>

\* lines 177-178: cluster_knowledge_graphs, the two sets listed in any order
ClusterGraphs ==
    /\ pc = "check"
    /\ ~NoGraphs(graphs)
    /\ \E elist \in ListsOfSet(AllEntities(graphs)) :
       \E rlist \in ListsOfSet(AllRelations(graphs)) :
          LET g == cluster_knowledge_graphs(graphs, similarity_threshold, elist, rlist)
          IN  /\ set_order' = elist
              /\ IF g.raised
                 THEN pc' = "raised" /\ UNCHANGED clustered_graph
                 ELSE /\ pc' = "save1"
                      /\ clustered_graph' = [called |-> TRUE, result |-> g.graph]
    /\ printed' = Append(printed, "Clustering")
    /\ UNCHANGED <<files, fidx, graphs, diagnostics, written>>

\* lines 181-182: save_clustered_graph
SaveGraph ==
    /\ pc = "save1"
    /\ written' = Append(written, "clustered_kg.json")
    /\ printed' = Append(printed, "Clustered graph saved")
    /\ pc' = "save2"
    /\ UNCHANGED <<files, fidx, graphs, diagnostics, set_order, clustered_graph>>

\* lines 185-191: the clustering details
SaveDetails ==
    /\ pc = "save2"
    /\ written' = Append(written, "clustering_details.json")
    /\ pc' = "stats"
    /\ UNCHANGED <<files, fidx, graphs, diagnostics, set_order, clustered_graph, printed>>

\* lines 194-205: the statistics; line 197 raises ZeroDivisionError when
\* there was no entity
PrintStats ==
    /\ pc = "stats"
    /\ IF StatsRaise(clustered_graph.result)
       THEN /\ printed' = Append(printed, "Clusterization results")
            /\ pc' = "raised"
       ELSE /\ printed' = Append(Append(printed, "Clusterization results"), "Top relations")
            /\ pc' = "done"
    /\ UNCHANGED <<files, fidx, graphs, diagnostics, set_order, clustered_graph, written>>

OthersP ==
    UNCHANGED <<normVars, entities, similarity_threshold, cst, mergeVars, analyzeVars>>

NextP ==
    \/ Start /\ OthersP
    \/ LoadFile /\ OthersP
    \/ LoadReturn /\ OthersP
    \/ EmptyReturn /\ OthersP
    \/ ClusterGraphs /\ OthersP
    \/ SaveGraph /\ OthersP
    \/ SaveDetails /\ OthersP
    \/ PrintStats /\ OthersP

Spec == InitP /\ [][NextP]_vars


\* g and h are equal as Python values: equal lists and counts, and
\* entity_clusters dicts with the same items whatever their insertion order
SameGraph(g, h) ==
    /\ g.entities = h.entities
    /\ g.relations = h.relations
    /\ g.edges = h.edges
    /\ g.stats = h.stats
    /\ Range(g.entity_clusters) = Range(h.entity_clusters)

\* C6: the result of cluster_knowledge_graphs is the same whatever order the
\* unioned entity set is enumerated in: every enumeration returns the graph
\* this run computed.
C6_Deterministic ==
    clustered_graph.called =>
        \A elist \in ListsOfSet(AllEntities(graphs)) :
        \A rlist \in ListsOfSet(AllRelations(graphs)) :
            LET g == cluster_knowledge_graphs(graphs, similarity_threshold, elist, rlist)
            IN  ~g.raised /\ SameGraph(g.graph, clustered_graph.result)

\* C7: once the loader has returned no graph, the run is at the check or has
\* returned after reporting the empty input; it has not raised, has written
\* no file and has not started clustering, merging or analysis.
C7_EmptyInput ==
    (pc \notin {"start", "load"} /\ graphs = <<>>) =>
        /\ pc \in {"check", "done"}
        /\ written = <<>>
        /\ ~clustered_graph.called
        /\ set_order = <<>>
        /\ pc = "done" =>
             printed = <<"Loading knowledge graphs", "No valid knowledge graphs found!">>

\* a finished run over a directory of two files, none of them a valid graph
C7_Witness ==
    /\ pc = "done"
    /\ graphs = <<>>
    /\ Len(files) = 2
    /\ \E k \in 1..Len(files) : IsCandidate(files[k]) /\ LoadRaises(files[k])

\* the files of fs, in order, that pass the name filter and hold a JSON
\* object with an "entities" key
Accepted(fs) ==
    SelectSeq(fs, LAMBDA f : /\ f.json /\ ~f.aggregated
                             /\ f.kind = "dict" /\ f.has_entities)

\* C8: the loader returns, whatever the files are, and the list it returns
\* holds exactly the files that parsed as a mapping with an "entities" key,
\* in traversal order; while it runs, what it has gathered is that list for
\* the files walked so far.
C8_LoaderTolerant ==
    /\ pc = "load" =>
          /\ fidx <= Len(files) + 1
          /\ Len(graphs) = Len(Accepted(SubSeq(files, 1, fidx - 1)))
    /\ pc \notin {"start", "load"} =>
          /\ fidx = Len(files) + 1
          /\ Len(graphs) = Len(Accepted(files))
          /\ \A k \in 1..Len(graphs) :
                /\ graphs[k].entities = Accepted(files)[k].entities
                /\ graphs[k].relations = Accepted(files)[k].relations

\* the loader returned a graph from a file that came after a file it could
\* not read or parse
C8_Witness ==
    /\ pc = "check"
    /\ Len(files) = 2
    /\ IsCandidate(files[1]) /\ LoadRaises(files[1])
    /\ Len(graphs) = 1
    /\ diagnostics = << <<"Error loading", 1>>, <<"Loaded graph from", 2>> >>


-----------------------------------------------------------------------------
(* The joins of cluster_entities *)

\* the position of entity e in the list of distinct entities ents
PosOf(ents, e) == CHOOSE k \in 1..Len(ents) : ents[k] = e

\* at least one of the three heuristics holds between the normalized forms
\* n1 and n2: similarity ratio at least the threshold, equal first
\* whitespace-delimited token, equal first 5 characters
Heuristic(n1, n2, threshold) ==
    \/ similar(n1, n2, threshold)
    \/ /\ ~SplitIsEmpty(n1) /\ ~SplitIsEmpty(n2)
       /\ FirstToken(n1) = FirstToken(n2)
    \/ SubSeq(n1, 1, IF Len(n1) < 5 THEN Len(n1) ELSE 5)
         = SubSeq(n2, 1, IF Len(n2) < 5 THEN Len(n2) ELSE 5)

\* the scan of the seed at position p has gone past position q
ScanPassed(p, q) ==
    \/ cst.pc = "returned"
    \/ p < cst.i
    \/ p = cst.i /\ cst.pc \in {"inner", "raised"} /\ q < cst.j

\* C11: at every point of the pass, for the cluster opened by the seed a at
\* position p and any other entity b at position q: b is a member of that
\* cluster if and only if q is after p, the scan of a has gone past q, b was
\* not a member of a cluster opened earlier, and one of the three heuristics
\* holds between norm(a) and norm(b).  The seed is the first member, and only
\* unconsumed entities are seeds.
C11_JoinIffSeedMatch ==
    \A k \in 1..Len(cst.clusters) :
        LET a == cst.clusters[k].rep
            p == PosOf(entities, a)
        IN  /\ cst.clusters[k].members[1] = a
            /\ \A k2 \in 1..(k - 1) : a \notin Range(cst.clusters[k2].members)
            /\ \A q \in (1..Len(entities)) \ {p} :
                  LET b == entities[q]
                  IN  b \in Range(cst.clusters[k].members) <=>
                        /\ q > p
                        /\ ScanPassed(p, q)
                        /\ \A k2 \in 1..(k - 1) :
                              b \notin Range(cst.clusters[k2].members)
                        /\ Heuristic(normalize_entity(a), normalize_entity(b),
                                     similarity_threshold)

\* a returned run in which an entity joined its seed only through the first
\* 5 characters, and in which an entity that matches a later seed stayed out
\* of that seed's cluster because an earlier seed had consumed it
C11_Witness ==
    /\ cst.pc = "returned"
    /\ \E k \in 1..Len(cst.clusters) :
       \E m \in 2..Len(cst.clusters[k].members) :
          LET n1 == normalize_entity(cst.clusters[k].rep)
              n2 == normalize_entity(cst.clusters[k].members[m])
          IN  /\ ~similar(n1, n2, similarity_threshold)
              /\ FirstToken(n1) # FirstToken(n2)
              /\ Prefix(n1, 5) = Prefix(n2, 5)
    /\ \E k \in 2..Len(cst.clusters) :
       \E q \in 1..Len(entities) :
          /\ q > PosOf(entities, cst.clusters[k].rep)
          /\ Heuristic(normalize_entity(cst.clusters[k].rep),
                       normalize_entity(entities[q]), similarity_threshold)
          /\ entities[q] \notin Range(cst.clusters[k].members)


\* C12: for every entity list the pass ends normally: it never raises, and
\* when it has returned every entity is consumed.
C12_AlwaysReturns ==
    /\ cst.pc # "raised"
    /\ cst.pc = "returned" => cst.used = 1..Len(entities)


\* C13: once at least one graph is loaded, the run goes through clustering,
\* the write of clustered_kg.json, the write of clustering_details.json and
\* the statistics in this order and returns: it never raises, what is
\* written and printed so far is a prefix of the full sequence, and a run
\* that has returned has written and printed all of it.
C13_StagesThenReturn ==
    (pc \notin {"start", "load"} /\ graphs # <<>>) =>
        LET allWritten == <<"clustered_kg.json", "clustering_details.json">>
            allPrinted == <<"Loading knowledge graphs", "Clustering",
                            "Clustered graph saved", "Clusterization results",
                            "Top relations">>
        IN  /\ pc # "raised"
            /\ Len(written) <= 2 /\ written = SubSeq(allWritten, 1, Len(written))
            /\ Len(printed) <= 5 /\ printed = SubSeq(allPrinted, 1, Len(printed))
            /\ pc = "done" => written = allWritten /\ printed = allPrinted


====
